---- MODULE Spec2Model ----
(***************************************************************************)
(* Vacancy ingestion pipeline: the PostgreSQL store (db_manager.py), the   *)
(* hh.ru source client (src/hh_api.py) and the ingestion run (main.py).    *)
(***************************************************************************)
EXTENDS Integers, Sequences, FiniteSets, TLC

(* ------------------------------ bounds -------------------------------- *)
MaxCompanyId == 2
MaxVacancyId == 2
MaxLimit == 2

(* Python None / SQL NULL of an integer-valued field. *)
None == -1

CompanyIds == 1..MaxCompanyId
VacancyIds == 1..MaxVacancyId

VARIABLES
    companies,      \* table companies: rows [id, name, url]
    vacancies,      \* table vacancies: rows [id, company_id, name, salary_from, salary_to, query]
    call,           \* the store call made last: [op, arg, old, top_ids, ret, raised]
    source,         \* the raw items hh.ru holds for the query, in result order
    f_pc,           \* get_all_vacancies: "idle", "loop", "done" (returned) or "raised"
    per_page,       \* get_all_vacancies: its argument per_page
    page,           \* get_all_vacancies: its local page
    all_vacancies,  \* get_all_vacancies: its local all_vacancies, the result once done
    requests,       \* the GET /vacancies requests sent: [page, per_page, resp, raised, items]
    last,           \* the last get_vacancies call: [probe, resp], what hh.ru answered
    r_pc,           \* main: "idle", "fetch", "loop", "vacancy", "returned", "done", "raised"
    fetched,        \* main: its local vacancies, the list get_vacancies returned
    r_i,            \* main: the position of the for loop in fetched
    runs,           \* the number of runs of main started so far
    oplog,          \* what the for loop of this run did: [op, i, arg], and for
                    \* save_vacancy old, the rows stored under arg's id before
    answer          \* the read query made last: [op, rows, value]

storeVars == <<companies, vacancies, call>>
fetchVars == <<f_pc, per_page, page, all_vacancies, requests>>
runVars == <<r_pc, fetched, r_i, runs, oplog>>
queryVars == <<answer>>
vars == <<storeVars, source, last, fetchVars, runVars, queryVars>>

\* a fraction num/den, den > 0: a value of SQL type numeric or of a float
Fraction(num, den) == [num |-> num, den |-> den]

\* no read query has been made
NoAnswer == [op |-> "none", rows |-> <<>>, value |-> Fraction(0, 1)]
QueryIdle == answer = NoAnswer

\* main has not been called
RunIdle ==
    /\ r_pc = "idle"
    /\ fetched = <<>>
    /\ r_i = 0
    /\ runs = 0
    /\ oplog = <<>>

Min(a, b) == IF a <= b THEN a ELSE b
Ids(rows) == {r.id : r \in rows}
WithId(rows, id) == {r \in rows : r.id = id}

(* --------------------------- the store -------------------------------- *)

\* create_tables: the row of table companies built from company_data
CompanyRow(company_data) ==
    [id |-> company_data.id, name |-> company_data.name, url |-> company_data.url]

\* create_tables: the row of table vacancies built from vacancy_data
VacancyRow(vacancy_data) ==
    [id          |-> vacancy_data.id,
     company_id  |-> vacancy_data.company_id,
     name        |-> vacancy_data.name,
     salary_from |-> vacancy_data.salary_from,
     salary_to   |-> vacancy_data.salary_to,
     query       |-> vacancy_data.query]

\* mutant of save_company: ON CONFLICT (id) DO NOTHING (the first row is kept)
save_company_keep_first(comps, company_data) ==
    [companies |-> IF WithId(comps, company_data.id) # {}
                   THEN comps
                   ELSE comps \cup {CompanyRow(company_data)},
     ret       |-> company_data.id,
     raised    |-> FALSE]

\* INSERT ... ON CONFLICT (id) DO UPDATE SET name, url ... RETURNING id
save_company(comps, company_data) ==
    [companies |-> (comps \ WithId(comps, company_data.id))
                       \cup {CompanyRow(company_data)},
     ret       |-> company_data.id,
     raised    |-> FALSE]

\* mutant of save_vacancy: ON CONFLICT (id) DO UPDATE (the last row is kept)
save_vacancy_upsert(comps, vacs, vacancy_data) ==
    IF vacancy_data.company_id \notin Ids(comps)
    THEN [vacancies |-> vacs, raised |-> TRUE]
    ELSE [vacancies |-> (vacs \ WithId(vacs, vacancy_data.id))
                            \cup {VacancyRow(vacancy_data)},
          raised    |-> FALSE]

\* mutant of save_vacancy: ON CONFLICT (id) DO UPDATE SET company_id (the
\* stored row moves to the company named last)
save_vacancy_reattach(comps, vacs, vacancy_data) ==
    IF vacancy_data.company_id \notin Ids(comps)
    THEN [vacancies |-> vacs, raised |-> TRUE]
    ELSE IF WithId(vacs, vacancy_data.id) # {}
    THEN [vacancies |-> (vacs \ WithId(vacs, vacancy_data.id))
                            \cup {[r EXCEPT !.company_id = vacancy_data.company_id] :
                                     r \in WithId(vacs, vacancy_data.id)},
          raised    |-> FALSE]
    ELSE [vacancies |-> vacs \cup {VacancyRow(vacancy_data)}, raised |-> FALSE]

\* INSERT ... ON CONFLICT (id) DO NOTHING; a new row must satisfy
\* company_id REFERENCES companies(id), else the statement raises.
save_vacancy(comps, vacs, vacancy_data) ==
    IF WithId(vacs, vacancy_data.id) # {}
    THEN [vacancies |-> vacs, raised |-> FALSE]
    ELSE IF vacancy_data.company_id \notin Ids(comps)
    THEN [vacancies |-> vacs, raised |-> TRUE]
    ELSE [vacancies |-> vacs \cup {VacancyRow(vacancy_data)}, raised |-> FALSE]

\* COUNT(v.id) of the LEFT JOIN, grouped by company
VacancyCount(vacs, c) ==
    Cardinality({v \in vacs : v.company_id = c})

\* mutant of select_top_ids: the query without LIMIT
select_top_ids_no_limit(comps, vacs, limit) == {Ids(comps)}

\* SELECT c.id ... GROUP BY c.id ORDER BY COUNT(v.id) DESC LIMIT limit:
\* every set of ids the query may return, the first min(limit, n) rows of
\* an ordering by count descending (rows with equal counts come in any
\* order; the caller uses the ids as a set, in NOT IN)
select_top_ids(comps, vacs, limit) ==
    LET ids == Ids(comps)
        cnt == [c \in ids |-> VacancyCount(vacs, c)]
    IN  {top \in SUBSET ids :
            /\ Cardinality(top) = Min(limit, Cardinality(ids))
            /\ \A r \in top, d \in ids \ top : cnt[r] >= cnt[d]}

\* mutant of keep_only_top_companies: the companies outside the top are
\* deleted, their vacancies are not
keep_only_top_companies_keep_vacancies(comps, vacs, top_ids) ==
    IF top_ids = {}
    THEN [companies |-> comps, vacancies |-> vacs]
    ELSE [companies |-> {c \in comps : c.id \in top_ids}, vacancies |-> vacs]

\* the body of keep_only_top_companies once top_ids is fetched
keep_only_top_companies(comps, vacs, top_ids) ==
    IF top_ids = {}
    THEN [companies |-> comps, vacancies |-> vacs]
    ELSE LET \* DELETE FROM vacancies WHERE company_id NOT IN top_ids
             vacs1  == {v \in vacs : v.company_id \in top_ids}
             \* DELETE FROM companies WHERE id NOT IN top_ids
             comps1 == {c \in comps : c.id \in top_ids}
             \* ON DELETE CASCADE of the rows deleted from companies
             vacs2  == {v \in vacs1 : v.company_id \in Ids(comps1)}
         IN  [companies |-> comps1, vacancies |-> vacs2]

\* call.old: the rows stored under arg's id when the call was made;
\* call.top_ids: the ids keep_only_top_companies fetched
NoCall == [op |-> "none", arg |-> [none |-> 0], old |-> {}, top_ids |-> {},
           ret |-> None, raised |-> FALSE]

(* ------------------------ the source client --------------------------- *)

\* min(kwargs.get("per_page", 100), 100): the API's cap and the default
ApiMaxPerPage == 100
DefaultPerPage == 100

\* bounds of the sources hh.ru may hold
MaxShapedItems == 2

\* JSON null, the empty dict {} and dict.get(key, default)
Null == [null |-> TRUE]
EmptyDict == [k \in {} |-> 0]
DictGet(d, key, default) == IF key \in DOMAIN d THEN d[key] ELSE default

\* vacancy.get(key, {}).get(sub, default): None has no attribute get
NestedRaises(vacancy, key) == DictGet(vacancy, key, EmptyDict) = Null
NestedGet(vacancy, key, sub, default) ==
    DictGet(DictGet(vacancy, key, EmptyDict), sub, default)

\* _parse_salary: {} for a missing, null or empty salary, else the four fields
\* (null and missing fields both read as None)
_parse_salary(salary_data) ==
    IF salary_data = Null \/ salary_data = EmptyDict
    THEN EmptyDict
    ELSE [from |-> DictGet(salary_data, "from", None),
          to   |-> DictGet(salary_data, "to", None)]

NestedKeys == {"employer", "experience", "employment", "schedule", "area"}

\* the dict _parse_vacancies builds for one raw vacancy, or the AttributeError
_parse_vacancy(vacancy) ==
    LET salary == _parse_salary(DictGet(vacancy, "salary", Null))
    IN  IF \E key \in NestedKeys : NestedRaises(vacancy, key)
        THEN [raised |-> TRUE, value |-> EmptyDict]
        ELSE [raised |-> FALSE,
              value  |->
                [id          |-> DictGet(vacancy, "id", None),
                 name        |-> DictGet(vacancy, "name", ""),
                 company_id  |-> NestedGet(vacancy, "employer", "id", None),
                 company     |-> NestedGet(vacancy, "employer", "name", ""),
                 company_url |-> NestedGet(vacancy, "employer", "alternate_url", ""),
                 salary_from |-> DictGet(salary, "from", None),
                 salary_to   |-> DictGet(salary, "to", None),
                 experience  |-> NestedGet(vacancy, "experience", "name", ""),
                 employment  |-> NestedGet(vacancy, "employment", "name", ""),
                 schedule    |-> NestedGet(vacancy, "schedule", "name", ""),
                 area        |-> NestedGet(vacancy, "area", "name", ""),
                 query       |-> ""]]

\* _parse_vacancies: the list of parsed vacancies, or the first exception
_parse_vacancies(raw_vacancies) ==
    IF \E i \in DOMAIN raw_vacancies : _parse_vacancy(raw_vacancies[i]).raised
    THEN [raised |-> TRUE, items |-> <<>>]
    ELSE [raised |-> FALSE,
          items  |-> [i \in DOMAIN raw_vacancies |-> _parse_vacancy(raw_vacancies[i]).value]]

\* hh.ru: the items of the page the request's per_page and page select
ServerPage(src, params) ==
    LET first == params.page * params.per_page + 1
        lst   == Min(Len(src), (params.page + 1) * params.per_page)
    IN  IF first > lst THEN <<>> ELSE SubSeq(src, first, lst)

\* what connect() meets: status 200, another status, a RequestException
ProbeOutcomes == {"ok", "status", "exception"}
\* what the GET /vacancies meets: a RequestException, a status other than 200,
\* a body that is not JSON, JSON that is not an object, an object without
\* "items", "items": null, an item that is not an object, or a page of items
RespOutcomes == {"exception", "status", "not_json", "not_object", "no_items",
                 "items_null", "item_not_object", "ok"}

\* get_vacancies(search_query, **kwargs) when connect() meets probe and the
\* request meets resp: [raised, items, requested, params]
get_vacancies(src, probe, resp, kwargs) ==
    LET params == [per_page |-> Min(DictGet(kwargs, "per_page", DefaultPerPage), ApiMaxPerPage),
                   page     |-> DictGet(kwargs, "page", 0)]
        empty  == [raised |-> FALSE, items |-> <<>>, requested |-> TRUE, params |-> params]
        error  == [raised |-> TRUE, items |-> <<>>, requested |-> TRUE, params |-> params]
    IN  IF probe # "ok"
        THEN [raised |-> FALSE, items |-> <<>>, requested |-> FALSE, params |-> params]
        ELSE CASE resp \in {"exception", "status", "not_json"} -> empty
               [] resp = "no_items" -> empty
               [] resp \in {"not_object", "items_null", "item_not_object"} -> error
               [] resp = "ok" ->
                    LET parsed == _parse_vacancies(ServerPage(src, params))
                    IN  IF parsed.raised THEN error
                        ELSE [raised |-> FALSE, items |-> parsed.items,
                              requested |-> TRUE, params |-> params]

NoOutcome == [probe |-> "none", resp |-> "none"]

\* get_all_vacancies has not been called
FetchIdle ==
    /\ f_pc = "idle"
    /\ per_page = 0
    /\ page = 0
    /\ all_vacancies = <<>>
    /\ requests = <<>>
    /\ last = NoOutcome

\* raw items as hh.ru sends them: item i of a source, with one nested object
\* "missing", null ("null") or all present ("full")
NestedShapes ==
    {[key |-> k, how |-> h] : k \in NestedKeys \cup {"salary"}, h \in {"missing", "null"}}
FullShape == [key |-> "none", how |-> "full"]

RawNested(key, i) ==
    CASE key = "employer" -> [id |-> ((i - 1) % MaxCompanyId) + 1, name |-> "A",
                              alternate_url |-> "u1"]
      [] key = "salary"   -> [from |-> 100, to |-> 200]
      [] OTHER            -> [name |-> key]

RawItem(i, shape) ==
    LET keys == {k \in NestedKeys \cup {"salary"} :
                    ~(shape.key = k /\ shape.how = "missing")}
    IN  [k \in {"id", "name"} \cup keys |->
            CASE k = "id"   -> i
              [] k = "name" -> "t1"
              [] OTHER      -> IF shape.key = k /\ shape.how = "null"
                               THEN Null ELSE RawNested(k, i)]

MakeSource(total, shape) == [i \in 1..total |-> RawItem(i, shape)]

\* how many items hh.ru holds: none, a short page, exactly one page, one page
\* and a short one, exactly two pages
SourceTotals == {0, 40, ApiMaxPerPage, ApiMaxPerPage + 40, 2 * ApiMaxPerPage}
FetchSources ==
    {MakeSource(t, FullShape) : t \in SourceTotals}
        \cup {MakeSource(t, sh) : t \in 1..MaxShapedItems, sh \in NestedShapes}

PerPageInputs == {50, DefaultPerPage, 150}

\* get_all_vacancies(search_query, per_page) is called
GetAllVacanciesCall ==
    /\ f_pc = "idle"
    /\ \E pp \in PerPageInputs : per_page' = pp
    /\ f_pc' = "loop"
    /\ page' = 0
    /\ all_vacancies' = <<>>
    /\ UNCHANGED <<source, requests, last>>
    /\ UNCHANGED <<storeVars, runVars, queryVars>>

\* mutant of get_all_vacancies_body: the loop ends on an empty page only
get_all_vacancies_no_short_break(all, pg, pp, r) ==
    IF r.raised
    THEN [f_pc |-> "raised", all_vacancies |-> all, page |-> pg]
    ELSE IF r.items = <<>>
    THEN [f_pc |-> "done", all_vacancies |-> all, page |-> pg]
    ELSE [f_pc |-> "loop", all_vacancies |-> all \o r.items, page |-> pg + 1]

\* the body of the while loop of get_all_vacancies once get_vacancies gave r
get_all_vacancies_body(all, pg, pp, r) ==
    IF r.raised
    THEN [f_pc |-> "raised", all_vacancies |-> all, page |-> pg]
    ELSE IF r.items = <<>>
    THEN [f_pc |-> "done", all_vacancies |-> all, page |-> pg]
    ELSE IF Len(r.items) < pp
    THEN [f_pc |-> "done", all_vacancies |-> all \o r.items, page |-> pg]
    ELSE [f_pc |-> "loop", all_vacancies |-> all \o r.items, page |-> pg + 1]

\* one round of the while loop of get_all_vacancies
GetAllVacanciesIteration ==
    /\ f_pc = "loop"
    /\ \E probe \in ProbeOutcomes, resp \in RespOutcomes :
          LET r == get_vacancies(source, probe, resp,
                                 [per_page |-> per_page, page |-> page, area |-> 113])
              b == get_all_vacancies_body(all_vacancies, page, per_page, r)
          IN  /\ last' = [probe |-> probe, resp |-> IF probe = "ok" THEN resp ELSE "none"]
              /\ requests' = IF r.requested
                             THEN Append(requests, [page     |-> r.params.page,
                                                    per_page |-> r.params.per_page,
                                                    resp     |-> resp,
                                                    raised   |-> r.raised,
                                                    items    |-> r.items])
                             ELSE requests
              /\ f_pc' = b.f_pc
              /\ all_vacancies' = b.all_vacancies
              /\ page' = b.page
    /\ UNCHANGED <<source, per_page>>
    /\ UNCHANGED <<storeVars, runVars, queryVars>>

FetchInit ==
    /\ companies = {}
    /\ vacancies = {}
    /\ call = NoCall
    /\ FetchIdle
    /\ RunIdle
    /\ QueryIdle
    /\ source \in FetchSources

FetchNext == GetAllVacanciesCall \/ GetAllVacanciesIteration

SpecFetch == FetchInit /\ [][FetchNext]_vars

(* --------------------- claims on the source client -------------------- *)

RECURSIVE ConcatItems(_)
ConcatItems(reqs) ==
    IF reqs = <<>> THEN <<>> ELSE reqs[1].items \o ConcatItems(Tail(reqs))

\* C5: get_all_vacancies with per_page = 100 requests pages 0, 1, 2, ... with
\* no gap, sends no request after a page of fewer than 100 (or zero) items,
\* goes on after a page of 100 items, and returns the concatenation, in page
\* order, of the items of the pages it requested (100 items held: 100 results
\* and two requests; 40 items held: 40 results and one request).
C5_Pagination ==
    (f_pc # "idle" /\ per_page = 100) =>
       /\ \A i \in DOMAIN requests :
             /\ requests[i].page = i - 1
             /\ requests[i].per_page = 100
             /\ i < Len(requests) => Len(requests[i].items) = 100
       /\ f_pc = "loop" => \A i \in DOMAIN requests : Len(requests[i].items) = 100
       /\ (f_pc = "done" /\ last.probe = "ok")
             => /\ requests # <<>>
                /\ Len(requests[Len(requests)].items) < 100
       /\ f_pc = "done" => all_vacancies = ConcatItems(requests)
       /\ (f_pc = "done" /\ last.resp = "ok" /\ Len(source) = 100)
             => Len(all_vacancies) = 100 /\ Len(requests) = 2
       /\ (f_pc = "done" /\ last.resp = "ok" /\ Len(source) = 40)
             => Len(all_vacancies) = 40 /\ Len(requests) = 1

\* a page of 100 items, then a page of 40 items, and the loop has returned
C5_Witness ==
    /\ f_pc = "done"
    /\ per_page = 100
    /\ last.resp = "ok"
    /\ Len(requests) = 2
    /\ Len(requests[1].items) = 100
    /\ Len(requests[2].items) = 40
    /\ Len(all_vacancies) = 140

\* the probe or the request of the last get_vacancies call failed: another
\* status, an exception, a body that is not JSON, or JSON that is not an
\* object with an "items" array of objects
TransportFailure ==
    \/ last.probe \in {"status", "exception"}
    \/ last.resp \in {"exception", "status", "not_json", "not_object", "no_items",
                      "items_null", "item_not_object"}

\* C6: when the probe or the request for page k fails, get_all_vacancies does
\* not raise: it returns the items of pages 0..k-1, and sends no request at
\* all when the probe before page 0 fails.
C6_NeverRaises ==
    (f_pc \in {"done", "raised"} /\ TransportFailure) =>
       /\ f_pc = "done"
       /\ all_vacancies = ConcatItems(SubSeq(requests, 1, page))
       /\ (last.probe # "ok" /\ page = 0) => requests = <<>>

\* the same statement for the failures the code catches: a failed probe, a
\* RequestException, another status, a body that is not JSON, no "items" key
C6_CaughtFailuresOnly ==
    (f_pc \in {"done", "raised"} /\ TransportFailure
        /\ last.resp \notin {"not_object", "items_null", "item_not_object"}) =>
       /\ f_pc = "done"
       /\ all_vacancies = ConcatItems(SubSeq(requests, 1, page))
       /\ (last.probe # "ok" /\ page = 0) => requests = <<>>

Absent(raw, key) == key \notin DOMAIN raw \/ raw[key] = Null

\* the parsed vacancy p has the empty string / None in the fields of every
\* nested object that raw lacks or holds as null
FieldsDefaulted(raw, p) ==
    /\ Absent(raw, "employer")
          => p.company_id = None /\ p.company = "" /\ p.company_url = ""
    /\ Absent(raw, "experience") => p.experience = ""
    /\ Absent(raw, "employment") => p.employment = ""
    /\ Absent(raw, "schedule") => p.schedule = ""
    /\ Absent(raw, "area") => p.area = ""
    /\ Absent(raw, "salary") => p.salary_from = None /\ p.salary_to = None

PageNormalized(req) ==
    LET raw == ServerPage(source, [page |-> req.page, per_page |-> req.per_page])
    IN  /\ ~req.raised
        /\ Len(req.items) = Len(raw)
        /\ \A j \in DOMAIN raw : FieldsDefaulted(raw[j], req.items[j])

\* C7: every page hh.ru answers with raw records in which a nested object
\* (employer, experience, employment, schedule, area, salary) is missing or
\* null is parsed without raising, into vacancies whose fields of that
\* object are the empty string / None.
C7_NormalizeNeverFails ==
    \A i \in DOMAIN requests : requests[i].resp = "ok" => PageNormalized(requests[i])

\* the same statement for records whose nested objects are missing, or whose
\* salary is null, which the code meets
C7_MissingNestedOnly ==
    \A i \in DOMAIN requests :
        (/\ requests[i].resp = "ok"
         /\ \A j \in DOMAIN source, key \in NestedKeys :
               key \in DOMAIN source[j] => source[j][key] # Null)
           => PageNormalized(requests[i])

\* no call of get_vacancies of the loop failed: hh.ru answered the probe
\* and every request with status 200 and a well-formed page
NoFetchFailed ==
    /\ last.probe = "ok"
    /\ \A i \in DOMAIN requests : requests[i].resp = "ok"

\* the requests are capped, the loop ended on a page shorter than requested
\* from hh.ru, and the result holds every item of the source
CappedPagination ==
    /\ \A i \in DOMAIN requests :
          requests[i].per_page = Min(per_page, ApiMaxPerPage)
    /\ (f_pc = "done" /\ NoFetchFailed)
          => /\ requests # <<>>
             /\ Len(requests[Len(requests)].items)
                    < requests[Len(requests)].per_page
             /\ Len(all_vacancies) = Len(source)

\* C15: for every per_page given by the caller, also above 100,
\* get_all_vacancies sends requests whose per_page is capped at 100 and,
\* when no fetch fails, goes on until a page has fewer items than were
\* requested from hh.ru, so that it returns every item the source holds; a
\* full page of 100 items is never taken as the last page.
C15_CappedPagination ==
    f_pc # "idle" => CappedPagination

\* the same statement for a per_page of at most 100, which the code meets
C15_UpToCapOnly ==
    (f_pc # "idle" /\ per_page <= ApiMaxPerPage) => CappedPagination

(* ----------------- calls on the store, in any order -------------------- *)

CompanyVariants == {[name |-> "A", url |-> "u1"], [name |-> "B", url |-> ""]}
CompanyInputs ==
    {[id |-> i, name |-> x.name, url |-> x.url] : i \in CompanyIds, x \in CompanyVariants}

VacancyVariants ==
    {[name |-> "t1", salary_from |-> 100, salary_to |-> None, query |-> "q1"],
     [name |-> "t2", salary_from |-> None, salary_to |-> 200, query |-> "q2"]}
VacancyInputs ==
    {[id |-> i, company_id |-> c, name |-> x.name, salary_from |-> x.salary_from,
      salary_to |-> x.salary_to, query |-> x.query] :
        i \in VacancyIds, c \in CompanyIds, x \in VacancyVariants}

CallSaveCompany ==
    \E c \in CompanyInputs :
        LET r == save_company(companies, c)
        IN  /\ companies' = r.companies
            /\ call' = [op |-> "save_company", arg |-> c,
                        old |-> WithId(companies, c.id), top_ids |-> {},
                        ret |-> r.ret, raised |-> r.raised]
            /\ UNCHANGED <<vacancies, source, last, fetchVars, queryVars, runVars>>

CallSaveVacancy ==
    \E v \in VacancyInputs :
        LET r == save_vacancy(companies, vacancies, v)
        IN  /\ vacancies' = r.vacancies
            /\ call' = [op |-> "save_vacancy", arg |-> v,
                        old |-> WithId(vacancies, v.id), top_ids |-> {},
                        ret |-> None, raised |-> r.raised]
            /\ UNCHANGED <<companies, source, last, fetchVars, queryVars, runVars>>

CallKeepOnlyTop ==
    \E limit \in 0..MaxLimit :
        \E top_ids \in select_top_ids(companies, vacancies, limit) :
            LET r == keep_only_top_companies(companies, vacancies, top_ids)
            IN  /\ companies' = r.companies
                /\ vacancies' = r.vacancies
                /\ call' = [op |-> "keep_only_top_companies",
                            arg |-> [limit |-> limit],
                            old |-> {}, top_ids |-> top_ids,
                            ret |-> None, raised |-> FALSE]
                /\ UNCHANGED <<source, last, fetchVars, queryVars, runVars>>

StoreInit ==
    /\ companies = {}
    /\ vacancies = {}
    /\ call = NoCall
    /\ FetchIdle
    /\ RunIdle
    /\ QueryIdle
    /\ source = <<>>

StoreNext == CallSaveCompany \/ CallSaveVacancy \/ CallKeepOnlyTop

SpecStore == StoreInit /\ [][StoreNext]_vars

(* ------------------------- claims on the store ------------------------ *)

\* C1: save_vacancy (insertPosting) with an id that is already stored leaves
\* the stored posting, and every other row of both tables, as it was, and
\* raises no error, whatever the other fields of the argument are (also a
\* company_id that differs from the stored one or names no stored company).
C1_FirstWriteWins ==
    [][(call'.op = "save_vacancy" /\ WithId(vacancies, call'.arg.id) # {})
          => /\ vacancies' = vacancies
             /\ companies' = companies
             /\ ~call'.raised]_vars

\* a second save_vacancy hit a stored id with other field values and another company
C1_Witness ==
    /\ call.op = "save_vacancy"
    /\ call.old # {}
    /\ \A r \in call.old :
          /\ r.company_id # call.arg.company_id
          /\ r.name # call.arg.name
          /\ r.salary_from # call.arg.salary_from
    /\ WithId(vacancies, call.arg.id) = call.old
    /\ ~call.raised

\* one call of save_company: the only row under the id it was given holds
\* the call's name and url, every other row is as it was, the id is returned
C2_StepLatestWins ==
    (call'.op = "save_company")
       => /\ WithId(companies', call'.arg.id) = {CompanyRow(call'.arg)}
          /\ companies' \ WithId(companies', call'.arg.id)
                = companies \ WithId(companies, call'.arg.id)
          /\ call'.ret = call'.arg.id
          /\ ~call'.raised
          /\ vacancies' = vacancies

\* no two rows of companies share an id
C2_OneRowPerId ==
    \A r1, r2 \in companies : r1.id = r2.id => r1 = r2

\* C2: save_company (upsertEmployer) leaves exactly one row under the id it
\* was given, holding the name and url of that call, returns that id, leaves
\* every other company row and every vacancy row as it was; no two rows of
\* companies ever share an id.
C2_LatestWriteWins == [](C2_OneRowPerId) /\ [][C2_StepLatestWins]_vars

\* a save_company replaced a stored row that had another name and another url
C2_Witness ==
    /\ call.op = "save_company"
    /\ call.old # {}
    /\ \A r \in call.old : r.name # call.arg.name /\ r.url # call.arg.url
    /\ WithId(companies, call.arg.id) = {CompanyRow(call.arg)}
    /\ vacancies # {}

\* the statement of C3 for one call keep_only_top_companies(limit) made on
\* a store with at least one company
TrimKeepsTopSet ==
    LET limit   == call'.arg.limit
        before  == Ids(companies)
        kept    == Ids(companies')
        deleted == before \ kept
    IN  /\ kept \subseteq before
        /\ Cardinality(kept) = Min(limit, Cardinality(before))
        /\ \A r \in kept, d \in deleted :
              VacancyCount(vacancies, r) >= VacancyCount(vacancies, d)
        /\ companies' = {c \in companies : c.id \in kept}
        /\ vacancies' = {v \in vacancies : v.company_id \in kept}
        /\ (Cardinality(before) <= limit
               => companies' = companies /\ vacancies' = vacancies)

\* C3: keep_only_top_companies(limit) on a store with at least one company
\* retains min(limit, number of companies) companies, each with at least as
\* many vacancies as every deleted one, deletes the others with all their
\* vacancies, leaves the retained rows as they were, and deletes nothing
\* when no more than limit companies are stored.
C3_TrimKeepsTopSet ==
    [][(call'.op = "keep_only_top_companies" /\ companies # {})
          => TrimKeepsTopSet]_vars

\* the same statement for the calls with limit >= 1, which the code meets
C3_TrimKeepsTopSetPositiveLimit ==
    [][(call'.op = "keep_only_top_companies" /\ companies # {} /\ call'.arg.limit >= 1)
          => TrimKeepsTopSet]_vars

\* C4: after keep_only_top_companies(limit), for every limit >= 0, the store
\* holds at most limit companies and no vacancy of any other company.
C4_AtMostLimitCompanies ==
    (call.op = "keep_only_top_companies")
       => /\ Cardinality(Ids(companies)) <= call.arg.limit
          /\ \A v \in vacancies : v.company_id \in Ids(companies)

(* -------------------------- the ingestion run -------------------------- *)

\* main: search_query and the limit it gives keep_only_top_companies
search_query == "Python"
TopCompaniesLimit == 10

\* how many times main is run on the same database
MaxRuns == 2

\* if company["id"]: None, 0 and the empty value are false
Truthy(x) == x # None /\ x # 0

extract_company_from_vacancy(vacancy) ==
    [id   |-> DictGet(vacancy, "company_id", None),
     name |-> DictGet(vacancy, "company", ""),
     url  |-> DictGet(vacancy, "company_url", "")]

extract_vacancy_data(vacancy, query) ==
    [id          |-> DictGet(vacancy, "id", None),
     company_id  |-> DictGet(vacancy, "company_id", None),
     name        |-> DictGet(vacancy, "name", ""),
     salary_from |-> DictGet(vacancy, "salary_from", None),
     salary_to   |-> DictGet(vacancy, "salary_to", None),
     query       |-> query]

\* mutant of SavesVacancy: the for loop saves every vacancy
SavesVacancy_always(vac) == TRUE

\* the test of the for loop of main: if company["id"]
SavesVacancy(vac) == Truthy(extract_company_from_vacancy(vac).id)

\* raw items of a run: cfg.total items with ids 1..total, spread over
\* cfg.employers employers from cfg.shift on; every cfg.skip-th item has no
\* employer (cfg.how = "missing") or an employer without id ("no_id")
RunRawItem(i, cfg) ==
    LET bare == cfg.skip # 0 /\ i % cfg.skip = 0
        keys == {"id", "name", "salary"}
                   \cup (IF bare /\ cfg.how = "missing" THEN {} ELSE {"employer"})
    IN  [k \in keys |->
            CASE k = "id"     -> i
              [] k = "name"   -> cfg.title
              [] k = "salary" -> [from |-> 100, to |-> 200]
              [] OTHER        ->
                   IF bare THEN [name |-> cfg.name]
                   ELSE [id |-> ((i - 1 + cfg.shift) % cfg.employers) + 1,
                         name |-> cfg.name, alternate_url |-> "u1"]]

MakeRunSource(cfg) == [i \in 1..cfg.total |-> RunRawItem(i, cfg)]

\* what hh.ru may hold when main runs: nothing; a few items, one without
\* employer; the same ids under other employers, one employer without id;
\* more employers than the run retains
RunConfigs ==
    {[total |-> 0, employers |-> 1, shift |-> 0, skip |-> 0, how |-> "missing",
      name |-> "A", title |-> "t1"],
     [total |-> MaxVacancyId + 1, employers |-> MaxCompanyId, shift |-> 0, skip |-> 2,
      how |-> "missing", name |-> "A", title |-> "t1"],
     [total |-> MaxVacancyId + 1, employers |-> MaxCompanyId, shift |-> 1, skip |-> 3,
      how |-> "no_id", name |-> "B", title |-> "t2"],
     [total |-> TopCompaniesLimit + 2, employers |-> TopCompaniesLimit + 1, shift |-> 0,
      skip |-> 0, how |-> "missing", name |-> "A", title |-> "t1"]}
RunSources == {MakeRunSource(cfg) : cfg \in RunConfigs}

\* sources of fewer items than one page, exactly one page, and more
BigRunSources ==
    {MakeRunSource([total |-> t, employers |-> 3, shift |-> 0, skip |-> 7,
                    how |-> "missing", name |-> "A", title |-> "t1"]) :
        t \in {40, ApiMaxPerPage, ApiMaxPerPage + 40}}

\* main starts: create_database and create_tables change no existing table
MainStartOn(sources) ==
    /\ r_pc \in {"idle", "returned", "done", "raised"}
    /\ runs < MaxRuns
    /\ source' \in sources
    /\ runs' = runs + 1
    /\ r_pc' = "fetch"
    /\ fetched' = <<>>
    /\ r_i' = 0
    /\ oplog' = <<>>
    /\ UNCHANGED <<storeVars, last, fetchVars, queryVars>>

MainStart == MainStartOn(RunSources)

MainStartBig == runs = 0 /\ MainStartOn(BigRunSources)

\* vacancies = hh_api.get_vacancies(search_query); if not vacancies: return
MainFetch ==
    /\ r_pc = "fetch"
    /\ \E probe \in ProbeOutcomes, resp \in RespOutcomes :
          LET r == get_vacancies(source, probe, resp, EmptyDict)
          IN  /\ last' = [probe |-> probe, resp |-> IF probe = "ok" THEN resp ELSE "none"]
              /\ IF r.raised
                 THEN r_pc' = "raised" /\ UNCHANGED <<fetched, r_i>>
                 ELSE IF r.items = <<>>
                 THEN r_pc' = "returned" /\ UNCHANGED <<fetched, r_i>>
                 ELSE r_pc' = "loop" /\ fetched' = r.items /\ r_i' = 1
    /\ UNCHANGED <<storeVars, source, fetchVars, queryVars, runs, oplog>>

\* the for loop at vac = fetched[r_i]: save_company, or the skip
MainLoopCompany ==
    /\ r_pc = "loop"
    /\ r_i <= Len(fetched)
    /\ LET vac     == fetched[r_i]
           company == extract_company_from_vacancy(vac)
           r       == save_company(companies, company)
       IN  IF SavesVacancy(vac)
           THEN /\ companies' = r.companies
                /\ call' = [op |-> "save_company", arg |-> company,
                            old |-> WithId(companies, company.id), top_ids |-> {},
                            ret |-> r.ret, raised |-> r.raised]
                /\ oplog' = Append(oplog, [op |-> "save_company", i |-> r_i, arg |-> company])
                /\ r_pc' = "vacancy"
                /\ UNCHANGED r_i
           ELSE /\ oplog' = Append(oplog, [op |-> "skip", i |-> r_i, arg |-> company])
                /\ r_i' = r_i + 1
                /\ UNCHANGED <<companies, call, r_pc>>
    /\ UNCHANGED <<vacancies, source, last, fetchVars, queryVars, fetched, runs>>

\* the for loop at vac = fetched[r_i], after save_company: save_vacancy
MainLoopVacancy ==
    /\ r_pc = "vacancy"
    /\ LET vacancy_record == extract_vacancy_data(fetched[r_i], search_query)
           r == save_vacancy(companies, vacancies, vacancy_record)
       IN  /\ vacancies' = r.vacancies
           /\ call' = [op |-> "save_vacancy", arg |-> vacancy_record,
                       old |-> WithId(vacancies, vacancy_record.id), top_ids |-> {},
                       ret |-> None, raised |-> r.raised]
           /\ oplog' = Append(oplog, [op |-> "save_vacancy", i |-> r_i,
                                      arg |-> vacancy_record,
                                      old |-> WithId(vacancies, vacancy_record.id)])
           /\ IF r.raised
              THEN r_pc' = "raised" /\ UNCHANGED r_i
              ELSE r_pc' = "loop" /\ r_i' = r_i + 1
    /\ UNCHANGED <<companies, source, last, fetchVars, queryVars, fetched, runs>>

\* after the loop: db_manager.keep_only_top_companies(10), then the menu
MainTrim ==
    /\ r_pc = "loop"
    /\ r_i > Len(fetched)
    /\ \E top_ids \in select_top_ids(companies, vacancies, TopCompaniesLimit) :
          LET r == keep_only_top_companies(companies, vacancies, top_ids)
          IN  /\ companies' = r.companies
              /\ vacancies' = r.vacancies
              /\ call' = [op |-> "keep_only_top_companies",
                          arg |-> [limit |-> TopCompaniesLimit],
                          old |-> {}, top_ids |-> top_ids,
                          ret |-> None, raised |-> FALSE]
    /\ oplog' = Append(oplog, [op |-> "keep_only_top_companies", i |-> r_i,
                               arg |-> [limit |-> TopCompaniesLimit]])
    /\ r_pc' = "done"
    /\ UNCHANGED <<source, last, fetchVars, queryVars, fetched, r_i, runs>>

RunInit ==
    /\ companies = {}
    /\ vacancies = {}
    /\ call = NoCall
    /\ FetchIdle
    /\ RunIdle
    /\ QueryIdle
    /\ source = <<>>

RunNext == MainStart \/ MainFetch \/ MainLoopCompany \/ MainLoopVacancy \/ MainTrim

\* runs of main, one after another, on the same database
SpecRun == RunInit /\ [][RunNext]_vars

RunBigNext == MainStartBig \/ MainFetch \/ MainLoopCompany \/ MainLoopVacancy \/ MainTrim

\* one run of main on an empty database, hh.ru holding up to two pages
SpecRunBig == RunInit /\ [][RunBigNext]_vars

(* ---------------------- claims on the ingestion run -------------------- *)

\* the raw item carries an employer identifier
HasEmployerId(raw) ==
    /\ "employer" \in DOMAIN raw
    /\ raw["employer"] # Null
    /\ "id" \in DOMAIN raw["employer"]

\* the run handed raw's employer to save_company and raw to save_vacancy
HandedToStore(raw) ==
    /\ \E k \in DOMAIN oplog :
          oplog[k].op = "save_company" /\ oplog[k].arg.id = raw["employer"].id
    /\ \E k \in DOMAIN oplog :
          oplog[k].op = "save_vacancy" /\ oplog[k].arg.id = raw["id"]

\* C8: a run whose fetch does not fail, on a source of more than 100 items,
\* hands every item that carries an employer identifier, of every page, to
\* save_company and save_vacancy.
C8_AllPagesIngested ==
    (r_pc = "done" /\ last.resp = "ok" /\ Len(source) > ApiMaxPerPage)
       => \A i \in DOMAIN source : HasEmployerId(source[i]) => HandedToStore(source[i])

\* what the code does: the items of page 0 are handed to the store, no other
C8_FirstPageOnly ==
    (r_pc = "done" /\ last.resp = "ok")
       => \A i \in DOMAIN source :
             HasEmployerId(source[i])
                => (HandedToStore(source[i]) <=> i <= ApiMaxPerPage)

\* the operations the for loop logged for fetched[i], in order, and the
\* place in oplog of the one named op
OpsOf(i) ==
    LET es == SelectSeq(oplog, LAMBDA e : e.i = i)
    IN  [k \in DOMAIN es |-> es[k].op]
IndexOf(i, op) ==
    (CHOOSE k \in DOMAIN oplog : oplog[k].i = i /\ oplog[k].op = op)

\* C9: the for loop works through the fetched vacancies in order; a vacancy
\* without employer identifier causes no store operation and the loop goes
\* on; one with an identifier causes save_company for its employer and then
\* save_vacancy for the vacancy, with the run's search_query as query;
\* keep_only_top_companies is called only after the last vacancy.
C9_LoopOrder ==
    /\ \A j, k \in DOMAIN oplog : j < k => oplog[j].i <= oplog[k].i
    /\ \A i \in DOMAIN fetched :
          i < r_i =>
             IF fetched[i].company_id = None
             THEN OpsOf(i) = <<"skip">>
             ELSE /\ OpsOf(i) = <<"save_company", "save_vacancy">>
                  /\ oplog[IndexOf(i, "save_company")].arg.id = fetched[i].company_id
                  /\ oplog[IndexOf(i, "save_vacancy")].arg.id = fetched[i].id
                  /\ oplog[IndexOf(i, "save_vacancy")].arg.company_id = fetched[i].company_id
                  /\ oplog[IndexOf(i, "save_vacancy")].arg.query = search_query
    /\ \A k \in DOMAIN oplog :
          oplog[k].op = "keep_only_top_companies"
             => /\ k = Len(oplog)
                /\ oplog[k].i = Len(fetched) + 1
                /\ \A i \in DOMAIN fetched : OpsOf(i) # <<>>

\* a finished run that skipped a vacancy, saved the next one and then trimmed
C9_Witness ==
    /\ r_pc = "done"
    /\ \E i \in DOMAIN fetched :
          /\ i < Len(fetched)
          /\ OpsOf(i) = <<"skip">>
          /\ OpsOf(i + 1) = <<"save_company", "save_vacancy">>
    /\ oplog[Len(oplog)].op = "keep_only_top_companies"

\* C10: in every state of every run, also between two store operations of a
\* run, the company_id of every stored vacancy is the id of a stored company.
C10_ReferentialIntegrity ==
    \A v \in vacancies : v.company_id \in Ids(companies)

\* a run saved more companies than the limit and its trim deleted some,
\* with their vacancies
C10_Witness ==
    /\ r_pc = "done"
    /\ call.op = "keep_only_top_companies"
    /\ Cardinality({oplog[k].arg.id : k \in {j \in DOMAIN oplog : oplog[j].op = "save_company"}})
          > TopCompaniesLimit
    /\ Cardinality(companies) = TopCompaniesLimit
    /\ Cardinality(vacancies) >= TopCompaniesLimit
    /\ Cardinality(vacancies) < Len(fetched)

\* C12: after every run of main that ends normally, by the return after an
\* empty fetch or after keep_only_top_companies(10), the store holds at most
\* 10 companies, for every sequence of runs from an empty store and whatever
\* was fetched.
C12_AtMostTenCompanies ==
    r_pc \in {"returned", "done"} => Cardinality(companies) <= TopCompaniesLimit

\* a run stored more than 10 companies and trimmed them to 10, and the next
\* run fetched nothing and returned
C12_Witness ==
    /\ r_pc = "returned"
    /\ runs = 2
    /\ Cardinality(companies) = TopCompaniesLimit
    /\ call.op = "keep_only_top_companies"
    /\ Cardinality(call.top_ids) = TopCompaniesLimit

\* the save_vacancy calls of this run whose id was stored under another
\* company than the one the vacancy names now
Reattached ==
    {k \in DOMAIN oplog :
        /\ oplog[k].op = "save_vacancy"
        /\ \E r \in oplog[k].old : r.company_id # oplog[k].arg.company_id}

\* the last save_company of this run for company id c
LastSaveCompany(c) ==
    LET ks == {k \in DOMAIN oplog :
                  oplog[k].op = "save_company" /\ oplog[k].arg.id = c}
    IN  CHOOSE k \in ks : \A j \in ks : j <= k

\* C16: when a run processes a vacancy whose id is stored under company A
\* and which now names company B, the stored vacancy stays with A, its fields
\* as they were, and B's row is created or updated; B may be stored without
\* vacancies; the counts keep_only_top_companies reads after the loop count
\* the vacancy for A, never for B.
C16_PostingStaysWithFirstEmployer ==
    \A k \in Reattached :
        LET arg == oplog[k].arg
            old == oplog[k].old
        IN  /\ r_pc \in {"loop", "vacancy"}
                  => /\ WithId(vacancies, arg.id) = old
                     /\ WithId(companies, arg.company_id)
                            = {CompanyRow(oplog[LastSaveCompany(arg.company_id)].arg)}
                     /\ \A r \in old :
                           /\ r.company_id \in Ids(companies)
                           /\ VacancyCount(vacancies, r.company_id) >= 1
                           /\ VacancyCount(vacancies \ old, r.company_id)
                                  = VacancyCount(vacancies, r.company_id) - 1
                     /\ VacancyCount(vacancies \ old, arg.company_id)
                            = VacancyCount(vacancies, arg.company_id)
            /\ r_pc = "done"
                  => /\ WithId(vacancies, arg.id) \subseteq old
                     /\ \A v \in vacancies : v.id = arg.id => v.company_id # arg.company_id

\* the loop of a run is over, a vacancy it processed is still stored under
\* its first company, and the company it names now is stored without any
\* vacancy
C16_Witness ==
    /\ r_pc = "loop"
    /\ r_i > Len(fetched)
    /\ \E k \in Reattached :
          /\ WithId(vacancies, oplog[k].arg.id) = oplog[k].old
          /\ oplog[k].arg.company_id \in Ids(companies)
          /\ VacancyCount(vacancies, oplog[k].arg.company_id) = 0

(* --------------------- the read queries of the store ------------------- *)

\* a < b for fractions
Less(a, b) == a.num * b.den < b.num * a.den

\* the orderings of a result set the clause ORDER BY key DESC allows: rows
\* with equal keys come in any order
OrderedDesc(S, key) ==
    {f \in [1..Cardinality(S) -> S] :
        /\ \A i, j \in DOMAIN f : i # j => f[i] # f[j]
        /\ \A i, j \in DOMAIN f : i < j => key[f[i]] >= key[f[j]]}

\* SELECT c.name, COUNT(v.id) FROM companies c LEFT JOIN vacancies v
\* ON c.id = v.company_id GROUP BY c.name ORDER BY vacancies_count DESC:
\* one group for every name, counting the joined rows of every company of
\* that name
get_companies_and_vacancies_count(comps, vacs) ==
    LET names   == {c.name : c \in comps}
        joined  == {<<c, v>> \in comps \X vacs : c.id = v.company_id}
        cnt     == [n \in names |->
                       Cardinality({j \in joined : j[1].name = n})]
    IN  {[i \in DOMAIN f |-> [name |-> f[i], vacancies_count |-> cnt[f[i]]]] :
            f \in OrderedDesc(names, cnt)}

\* WHERE salary_from IS NOT NULL OR salary_to IS NOT NULL
HasSalary(v) == v.salary_from # None \/ v.salary_to # None

\* the CASE expression of both salary queries, a numeric: Null for a row
\* without bounds
computed_salary(v) ==
    IF v.salary_from # None /\ v.salary_to # None
    THEN Fraction(v.salary_from + v.salary_to, 2)
    ELSE IF v.salary_from # None THEN Fraction(v.salary_from, 1)
    ELSE IF v.salary_to # None THEN Fraction(v.salary_to, 1)
    ELSE Null

RECURSIVE SumHalves(_, _)
\* the sum of the values val[r], r in S, counted in halves (every value has
\* the denominator 1 or 2)
SumHalves(val, S) ==
    IF S = {}
    THEN 0
    ELSE LET r == CHOOSE r \in S : TRUE
         IN  val[r].num * (2 \div val[r].den) + SumHalves(val, S \ {r})

\* the aggregate AVG: the mean of the values that are not NULL, NULL when
\* there is none
AVG(val) ==
    LET S == {r \in DOMAIN val : val[r] # Null}
    IN  IF S = {} THEN Null ELSE Fraction(SumHalves(val, S), 2 * Cardinality(S))

\* mutant of get_avg_salary: a row without bounds counts as 0
get_avg_salary_null_as_zero(vacs) ==
    LET result == AVG([v \in vacs |->
                          IF HasSalary(v) THEN computed_salary(v)
                                          ELSE Fraction(0, 1)])
    IN  IF result # Null THEN result ELSE Fraction(0, 1)

\* SELECT AVG(CASE ...) FROM vacancies WHERE ...; float(result), 0.0 for None
get_avg_salary(vacs) ==
    LET rows   == {v \in vacs : HasSalary(v)}
        result == AVG([v \in rows |-> computed_salary(v)])
    IN  IF result # Null THEN result ELSE Fraction(0, 1)

\* the rows get_vacancies_with_higher_salary may return; a row keeps the id
\* of the vacancy it was selected from (the columns url and salary are left
\* out)
get_vacancies_with_higher_salary(comps, vacs) ==
    LET avg_salary == get_avg_salary(vacs)
    IN  IF avg_salary.num = 0
        THEN {<<>>}
        ELSE LET joined == {<<c, v>> \in comps \X vacs : v.company_id = c.id}
                 sel    == {j \in joined :
                               /\ HasSalary(j[2])
                               /\ Less(avg_salary, computed_salary(j[2]))}
                 \* computed_salary in halves, the key of ORDER BY
                 key    == [j \in sel |->
                               computed_salary(j[2]).num
                                   * (2 \div computed_salary(j[2]).den)]
             IN  {[i \in DOMAIN f |->
                      [id           |-> f[i][2].id,
                       company_name |-> f[i][1].name,
                       vacancy_name |-> f[i][2].name]] :
                    f \in OrderedDesc(sel, key)}

(* ------------------ read queries on stores of any content -------------- *)

QueryVacancyIds == 1..(MaxVacancyId + 1)

\* salary_from, salary_to of the stored vacancies
SalaryPairs ==
    {<<100, 200>>, <<50, None>>, <<None, None>>, <<None, 200>>,
     <<-100, None>>, <<100, None>>, <<0, None>>}

QueryVacancy(i, c, pair) ==
    [id |-> i, company_id |-> c, name |-> "t1",
     salary_from |-> pair[1], salary_to |-> pair[2], query |-> "q1"]

\* one company, vacancies of any salary
SalaryStores ==
    {[companies |-> {[id |-> 1, name |-> "A", url |-> "u1"]},
      vacancies |-> {QueryVacancy(i, 1, p[i]) :
                        i \in {j \in QueryVacancyIds : p[j] # <<>>}}] :
        p \in [QueryVacancyIds -> SalaryPairs \cup {<<>>}]}

\* companies of any name, vacancies of any company (0: no such vacancy)
CountStores ==
    {[companies |-> comps,
      vacancies |-> {QueryVacancy(i, a[i], <<None, None>>) :
                        i \in {j \in QueryVacancyIds : a[j] # 0}}] :
        comps \in {t \in SUBSET CompanyInputs :
                      \A x, y \in t : x.id = y.id => x = y},
        a \in [QueryVacancyIds -> 0..MaxCompanyId]}

QueryStores ==
    {st \in SalaryStores \cup CountStores :
        \A v \in st.vacancies : v.company_id \in Ids(st.companies)}

CallCompaniesAndVacanciesCount ==
    /\ \E rows \in get_companies_and_vacancies_count(companies, vacancies) :
          answer' = [op |-> "get_companies_and_vacancies_count",
                     rows |-> rows, value |-> Fraction(0, 1)]
    /\ UNCHANGED <<storeVars, source, last, fetchVars, runVars>>

CallAvgSalary ==
    /\ answer' = [op |-> "get_avg_salary", rows |-> <<>>,
                  value |-> get_avg_salary(vacancies)]
    /\ UNCHANGED <<storeVars, source, last, fetchVars, runVars>>

CallVacanciesWithHigherSalary ==
    /\ \E rows \in get_vacancies_with_higher_salary(companies, vacancies) :
          answer' = [op |-> "get_vacancies_with_higher_salary",
                     rows |-> rows, value |-> Fraction(0, 1)]
    /\ UNCHANGED <<storeVars, source, last, fetchVars, runVars>>

QueryInit ==
    /\ \E st \in QueryStores :
          /\ companies = st.companies
          /\ vacancies = st.vacancies
    /\ call = NoCall
    /\ FetchIdle
    /\ RunIdle
    /\ QueryIdle
    /\ source = <<>>

QueryNext ==
    \/ CallCompaniesAndVacanciesCount
    \/ CallAvgSalary
    \/ CallVacanciesWithHigherSalary

SpecQuery == QueryInit /\ [][QueryNext]_vars

(* ----------------------- claims on the read queries -------------------- *)

\* the rows are ordered by count descending
CountsDescending(rows) ==
    \A i, j \in DOMAIN rows :
        i < j => rows[i].vacancies_count >= rows[j].vacancies_count

\* the rows are, one for one, the stored companies with their own counts
OneRowPerCompany(rows) ==
    /\ Len(rows) = Cardinality(companies)
    /\ \E f \in [DOMAIN rows -> companies] :
          /\ \A i, j \in DOMAIN rows : i # j => f[i] # f[j]
          /\ \A i \in DOMAIN rows :
                /\ rows[i].name = f[i].name
                /\ rows[i].vacancies_count = VacancyCount(vacancies, f[i].id)

\* C11: get_companies_and_vacancies_count (employerPostingCounts) returns
\* exactly one row for every stored company, also for a company without
\* vacancies and for companies of different ids that share a name, each row
\* with the count of that company's own vacancies, ordered by count
\* descending; the number of rows is the number of stored companies.
C11_OneRowPerEmployer ==
    answer.op = "get_companies_and_vacancies_count"
        => /\ OneRowPerCompany(answer.rows)
           /\ CountsDescending(answer.rows)

\* the same statement for stores in which no two companies share a name,
\* which the code meets
C11_DistinctNamesOnly ==
    (/\ answer.op = "get_companies_and_vacancies_count"
     /\ \A x, y \in companies : x.name = y.name => x = y)
        => /\ OneRowPerCompany(answer.rows)
           /\ CountsDescending(answer.rows)

\* twice the representative value of a vacancy with at least one bound:
\* (from + to) / 2 when both are present, else the bound that is present
TwiceRepresentative(v) ==
    IF v.salary_from # None /\ v.salary_to # None
    THEN v.salary_from + v.salary_to
    ELSE IF v.salary_from # None THEN 2 * v.salary_from ELSE 2 * v.salary_to

RECURSIVE SumTwiceRepresentative(_)
SumTwiceRepresentative(S) ==
    IF S = {}
    THEN 0
    ELSE LET v == CHOOSE v \in S : TRUE
         IN  TwiceRepresentative(v) + SumTwiceRepresentative(S \ {v})

\* the vacancies with at least one salary bound
Qualifying == {v \in vacancies : v.salary_from # None \/ v.salary_to # None}

\* the store holds the vacancies {100, 200}, {50, null}, {null, null}
ExampleSalaries ==
    /\ Cardinality(vacancies) = 3
    /\ {<<v.salary_from, v.salary_to>> : v \in vacancies}
           = {<<100, 200>>, <<50, None>>, <<None, None>>}

\* C13: get_avg_salary (averageSalary) returns the arithmetic mean of the
\* representative values of the stored vacancies with at least one salary
\* bound; a vacancy with neither bound is left out of the mean, not counted
\* as zero; the result is 0.0 when no vacancy qualifies; the vacancies
\* {100, 200}, {50, null}, {null, null} give 100.0.
C13_MeanOfRepresentatives ==
    answer.op = "get_avg_salary"
        => /\ IF Qualifying = {}
              THEN answer.value.num = 0
              ELSE 2 * Cardinality(Qualifying) * answer.value.num
                       = answer.value.den * SumTwiceRepresentative(Qualifying)
           /\ ExampleSalaries => answer.value.num = 100 * answer.value.den

\* the mean of the example has been computed
C13_Witness ==
    /\ answer.op = "get_avg_salary"
    /\ ExampleSalaries
    /\ answer.value.num = 100 * answer.value.den

\* the vacancies whose representative value is above get_avg_salary()
AboveAverage ==
    LET avg == get_avg_salary(vacancies)
    IN  {v \in Qualifying : TwiceRepresentative(v) * avg.den > 2 * avg.num}

\* rows are exactly the vacancies above the average, by value descending
ExactlyAboveAverage(rows) ==
    /\ Len(rows) = Cardinality(AboveAverage)
    /\ {rows[i].id : i \in DOMAIN rows} = Ids(AboveAverage)
    /\ \A i, j \in DOMAIN rows :
          i < j => \A v \in WithId(vacancies, rows[i].id),
                      w \in WithId(vacancies, rows[j].id) :
                        TwiceRepresentative(v) >= TwiceRepresentative(w)
    /\ rows = <<>> => AboveAverage = {}

\* C14: get_vacancies_with_higher_salary (postingsAboveAverageSalary)
\* returns exactly the stored vacancies whose representative value is
\* strictly greater than what get_avg_salary returns for the same store,
\* ordered by that value descending, and returns the empty list only when
\* no vacancy is above the average, for all integer salary bounds, also
\* those whose average is exactly 0.
C14_ExactlyAboveAverage ==
    answer.op = "get_vacancies_with_higher_salary"
        => ExactlyAboveAverage(answer.rows)

\* the same statement for stores whose average is not 0, which the code
\* meets
C14_NonZeroAverageOnly ==
    (/\ answer.op = "get_vacancies_with_higher_salary"
     /\ get_avg_salary(vacancies).num # 0)
        => ExactlyAboveAverage(answer.rows)


====
